---- MODULE Spec2Model ----
(***************************************************************************)
(* Model of the repository facade (package repository, type proxy) of the  *)
(* Opera GraphQL API server: cache-aside lookups of transactions and of    *)
(* the latest sealed epoch over the RPC bridge and the in-memory cache     *)
(* bridge, transaction submission, and cursor paging of the transaction    *)
(* collection held by the document store.                                  *)
(***************************************************************************)
EXTENDS Integers, Sequences, FiniteSets, TLC

VARIABLES
    node,        \* full node: hash -> "absent" | "pending" | "confirmed"
    sealed,      \* full node: id of the current sealed epoch (SFC contract)
    txCache,     \* cache bridge: hash -> cached transaction, NoTrx if none
    epochCache,  \* cache bridge: the latest-sealed-epoch entry, NoEpoch if none
    fetched,     \* history: hashes a Transaction lookup fetched confirmed from RPC
    hot,         \* history: of those, the ones the cache accepted and still keeps
    last,        \* the facade operation that has just returned: calls made, result
    dbTrx,       \* document store: ordinals of the stored transactions
    dbContracts, \* document store: ordinals of the stored contract records
    page,        \* the last page request and the page returned for it
    txl,         \* the last Account.TxList call: count asked, count passed on, result
    sfc,         \* full node: what the node and the SFC contract hold of the staker
    stk,         \* the last staker lookup: outcome of each call, record returned
    feed,        \* orchestrator: per loop, the notifications the node has sent
    done,        \* orchestrator: per loop, how many of them the loop has taken
    blkLog,      \* history: the block numbers the block loop appended, in order
    blkStore,    \* document store: the block numbers stored, in insertion order
    chans,       \* per loop and subscriber, the buffer of the output channel
    subs,        \* orchestrator: per loop, the subscribers whose channel is registered
    fwd,         \* the loop step that has just been made: what it sent to whom
    loops,       \* orchestrator: per loop, whether it is running or has exited
    closing,     \* the closing of the repository: calls made, resources released
    lookups      \* per caller, the Transaction lookup it is in: position, result

vars == <<node, sealed, txCache, epochCache, fetched, hot, last, dbTrx, dbContracts, page,
          txl, sfc, stk, feed, done, blkLog, blkStore, chans, subs, fwd,
          loops, closing, lookups>>

(***************************************************************************)
(* Bounds of the model.                                                    *)
(***************************************************************************)
NumHashes == 2
MaxEpoch == 2
MaxEntries == 4
MaxCount == 3
MaxOver == 2
MaxStake == 2
NumSubs == 2
MaxEvents == 3
MaxCloses == 2
NumCallers == 2

Hashes == 1..NumHashes

\* ordinals of the transactions the chain can hold: a larger ordinal is newer
Ordinals == 1..MaxEntries

\* the signed counts a page request can carry
Counts == (-MaxCount..MaxCount) \ {0}

\* maximal number of transactions a client can ask of an account in one query
accMaxTransactionsPerRequest == 50

\* the signed counts an Account.TxList request can carry: the small ones, and
\* the ones on both sides of the limit
TxListCounts ==
    Counts \cup {sign * (accMaxTransactionsPerRequest + d) :
                    sign \in {-1, 1}, d \in -MaxOver..MaxOver}

(***************************************************************************)
(* Values.                                                                 *)
(***************************************************************************)
\* a nil *types.Transaction
NoTrx == [hash |-> 0, blockHash |-> 0]

\* a nil *types.Epoch, and the zero value types.Epoch{}
NoEpoch == [id |-> 0, endTime |-> 0]

\* the transaction the node reports for a hash: BlockHash is nil (0) while pending
NodeTrx(st, h) == [hash |-> h, blockHash |-> IF st = "confirmed" THEN 100 + h ELSE 0]

ErrNone == "nil"
ErrNoResult == "eth.ErrNoResult"
ErrTransport == "rpc transport failure"
ErrSubmit == "rpc submit failure"
ErrContract == "sfc contract call failure"
ErrInstantiate == "sfc contract instantiate failure"
ErrCachePut == "cache put failure"
ErrDatabase == "document store failure"

\* ErrTransactionNotFound represents an error returned if a transaction can not be found.
ErrTransactionNotFound == "requested transaction can not be found in Opera blockchain"

Called(calls, name) == \E i \in DOMAIN calls : calls[i] = name

RpcCallNames == {"rpc.Transaction", "rpc.SendTransaction", "rpc.CurrentSealedEpoch", "rpc.Epoch"}
CacheCallNames == {"cache.PullTransaction", "cache.PushTransaction",
                   "cache.PullLastEpoch", "cache.PushLastEpoch"}
DbCallNames == {"db.Transactions", "db.AddTransaction", "db.AddContract"}

CallsAny(calls, names) == \E i \in DOMAIN calls : calls[i] \in names

(***************************************************************************)
(* Cache bridge (package cache, MemBridge).                                *)
(***************************************************************************)
\* get-by-key: the entry, nil when absent
PullTransaction(cache, h) == cache[h]

\* put-with-key: stores the entry unless the put fails
PushTransaction(cache, trx, putOk) ==
    [err   |-> IF putOk THEN ErrNone ELSE ErrCachePut,
     cache |-> IF putOk THEN [cache EXCEPT ![trx.hash] = trx] ELSE cache]

PullLastEpoch(ec) == ec

PushLastEpoch(ec, ep, putOk) ==
    [err   |-> IF putOk THEN ErrNone ELSE ErrCachePut,
     cache |-> IF putOk THEN ep ELSE ec]

(***************************************************************************)
(* Document-store bridge (package db, MongoDbBridge).                      *)
(***************************************************************************)
\* append a transaction record: re-appending a stored key does not duplicate it
DbAddTransaction(db, key, ok) ==
    [err |-> IF ok THEN ErrNone ELSE ErrDatabase, db |-> IF ok THEN db \cup {key} ELSE db]

\* append a contract record, keyed by the deploying transaction here
DbAddContract(cons, key, ok) ==
    [err |-> IF ok THEN ErrNone ELSE ErrDatabase, db |-> IF ok THEN cons \cup {key} ELSE cons]

RECURSIVE DescendingSeq(_)
DescendingSeq(S) ==
    IF S = {} THEN <<>>
    ELSE LET m == CHOOSE x \in S : \A y \in S : y <= x
         IN <<m>> \o DescendingSeq(S \ {m})

RECURSIVE AscendingSeq(_)
AscendingSeq(S) ==
    IF S = {} THEN <<>>
    ELSE LET m == CHOOSE x \in S : \A y \in S : y >= x
         IN <<m>> \o AscendingSeq(S \ {m})

Reverse(q) == [i \in 1..Len(q) |-> q[Len(q) + 1 - i]]

\* Mutant of the paged query: a backward scan is reported in scan order,
\* oldest first
DbTransactions_NoReverse(db, cursor, count) ==
    LET n == IF count > 0 THEN count ELSE -count
        cand == IF count > 0 THEN {e \in db : cursor = 0 \/ e < cursor}
                ELSE {e \in db : cursor = 0 \/ e > cursor}
        sel == IF count > 0 THEN {e \in cand : Cardinality({x \in cand : x > e}) < n}
               ELSE {e \in cand : Cardinality({x \in cand : x < e}) < n}
        edges == IF count > 0 THEN DescendingSeq(sel) ELSE AscendingSeq(sel)
    IN [edges |-> edges, err |-> ErrNone,
        first |-> IF edges = <<>> THEN 0 ELSE edges[1],
        last |-> IF edges = <<>> THEN 0 ELSE edges[Len(edges)],
        hasNext |-> IF edges = <<>> THEN count < 0 /\ cursor # 0
                    ELSE \E e \in db : e < edges[Len(edges)],
        hasPrevious |-> IF edges = <<>> THEN count > 0 /\ cursor # 0
                        ELSE \E e \in db : e > edges[1]]

\* paged query of the transaction collection by cursor (0: undefined) and
\* signed count: a positive count scans toward older entries from the top or
\* from just after the cursor, a negative count scans toward newer entries
\* from the bottom or from just before the cursor; at most |count| entries,
\* reported newest first
DbTransactions(db, cursor, count) ==
    LET n == IF count > 0 THEN count ELSE -count
        cand == IF count > 0 THEN {e \in db : cursor = 0 \/ e < cursor}
                ELSE {e \in db : cursor = 0 \/ e > cursor}
        sel == IF count > 0 THEN {e \in cand : Cardinality({x \in cand : x > e}) < n}
               ELSE {e \in cand : Cardinality({x \in cand : x < e}) < n}
        edges == IF count > 0 THEN DescendingSeq(sel) ELSE Reverse(AscendingSeq(sel))
    IN [edges |-> edges, err |-> ErrNone,
        first |-> IF edges = <<>> THEN 0 ELSE edges[1],
        last |-> IF edges = <<>> THEN 0 ELSE edges[Len(edges)],
        hasNext |-> IF edges = <<>> THEN count < 0 /\ cursor # 0
                    ELSE \E e \in db : e < edges[Len(edges)],
        hasPrevious |-> IF edges = <<>> THEN count > 0 /\ cursor # 0
                        ELSE \E e \in db : e > edges[1]]

(***************************************************************************)
(* RPC bridge (package rpc, FtmBridge).                                    *)
(***************************************************************************)
\* get transaction by hash: the transaction, ErrNoResult when the node has
\* none, or a transport failure
RpcTransaction(nd, h, rpcOk) ==
    IF ~rpcOk THEN [trx |-> NoTrx, err |-> ErrTransport]
    ELSE IF nd[h] = "absent" THEN [trx |-> NoTrx, err |-> ErrNoResult]
    ELSE [trx |-> NodeTrx(nd[h], h), err |-> ErrNone]

\* what a contract read can do: the binding cannot be instantiated, the call
\* fails, or the call returns
ContractOutcomes == {"ok", "instantiate fails", "call fails"}

\* FtmBridge.CurrentSealedEpoch: the sealed epoch id from the SFC contract; 0
\* and the error if the contract binding or the call fails
RpcCurrentSealedEpoch(sealedId, out) ==
    IF out = "instantiate fails" THEN [id |-> 0, err |-> ErrInstantiate]
    ELSE IF out = "call fails" THEN [id |-> 0, err |-> ErrContract]
    ELSE [id |-> sealedId, err |-> ErrNone]

\* SfcContract.EpochSnapshots: the snapshot the contract keeps for an epoch,
\* all zero for an epoch that is not sealed yet
EpochSnapshots(sealedId, id) ==
    [endTime |-> IF id >= 1 /\ id <= sealedId THEN 1000 + id ELSE 0]

\* FtmBridge.Epoch: the epoch of the given id built from its contract snapshot
RpcEpoch(sealedId, id, out) ==
    IF out = "instantiate fails" THEN [epoch |-> NoEpoch, err |-> ErrInstantiate]
    ELSE IF out = "call fails" THEN [epoch |-> NoEpoch, err |-> ErrContract]
    ELSE [epoch |-> [id |-> id, endTime |-> EpochSnapshots(sealedId, id).endTime],
          err |-> ErrNone]

(***************************************************************************)
(* Repository facade: transactions.                                        *)
(***************************************************************************)
\* Mutants of proxy.Transaction.
\* the fetched transaction is returned but never pushed to the cache
Transaction_NeverPushes(cache, h, reply, putOk) ==
    LET hit == PullTransaction(cache, h) IN
    IF hit # NoTrx
    THEN [trx |-> hit, err |-> ErrNone, cache |-> cache, calls |-> <<"cache.PullTransaction">>]
    ELSE IF reply.err # ErrNone
    THEN [trx |-> NoTrx,
          err |-> IF reply.err = ErrNoResult THEN ErrTransactionNotFound ELSE reply.err,
          cache |-> cache,
          calls |-> <<"cache.PullTransaction", "rpc.Transaction">>]
    ELSE [trx |-> reply.trx, err |-> ErrNone, cache |-> cache,
          calls |-> <<"cache.PullTransaction", "rpc.Transaction">>]

\* the BlockHash test is dropped: a pending transaction is pushed too
Transaction_CachesPending(cache, h, reply, putOk) ==
    LET hit == PullTransaction(cache, h) IN
    IF hit # NoTrx
    THEN [trx |-> hit, err |-> ErrNone, cache |-> cache, calls |-> <<"cache.PullTransaction">>]
    ELSE IF reply.err # ErrNone
    THEN [trx |-> NoTrx,
          err |-> IF reply.err = ErrNoResult THEN ErrTransactionNotFound ELSE reply.err,
          cache |-> cache,
          calls |-> <<"cache.PullTransaction", "rpc.Transaction">>]
    ELSE LET put == PushTransaction(cache, reply.trx, putOk) IN
         [trx |-> reply.trx, err |-> ErrNone, cache |-> put.cache,
          calls |-> <<"cache.PullTransaction", "rpc.Transaction", "cache.PushTransaction">>]

\* the ErrNoResult test is dropped: the RPC error is returned as it is
Transaction_RawNoResult(cache, h, reply, putOk) ==
    LET hit == PullTransaction(cache, h) IN
    IF hit # NoTrx
    THEN [trx |-> hit, err |-> ErrNone, cache |-> cache, calls |-> <<"cache.PullTransaction">>]
    ELSE IF reply.err # ErrNone
    THEN [trx |-> NoTrx, err |-> reply.err, cache |-> cache,
          calls |-> <<"cache.PullTransaction", "rpc.Transaction">>]
    ELSE IF reply.trx.blockHash # 0
    THEN LET put == PushTransaction(cache, reply.trx, putOk) IN
         [trx |-> reply.trx, err |-> ErrNone, cache |-> put.cache,
          calls |-> <<"cache.PullTransaction", "rpc.Transaction", "cache.PushTransaction">>]
    ELSE [trx |-> reply.trx, err |-> ErrNone, cache |-> cache,
          calls |-> <<"cache.PullTransaction", "rpc.Transaction">>]

\* the error of PushTransaction is returned instead of logged
Transaction_PutErrorReturned(cache, h, reply, putOk) ==
    LET hit == PullTransaction(cache, h) IN
    IF hit # NoTrx
    THEN [trx |-> hit, err |-> ErrNone, cache |-> cache, calls |-> <<"cache.PullTransaction">>]
    ELSE IF reply.err # ErrNone
    THEN [trx |-> NoTrx,
          err |-> IF reply.err = ErrNoResult THEN ErrTransactionNotFound ELSE reply.err,
          cache |-> cache,
          calls |-> <<"cache.PullTransaction", "rpc.Transaction">>]
    ELSE IF reply.trx.blockHash # 0
    THEN LET put == PushTransaction(cache, reply.trx, putOk) IN
         [trx |-> IF put.err # ErrNone THEN NoTrx ELSE reply.trx, err |-> put.err,
          cache |-> put.cache,
          calls |-> <<"cache.PullTransaction", "rpc.Transaction", "cache.PushTransaction">>]
    ELSE [trx |-> reply.trx, err |-> ErrNone, cache |-> cache,
          calls |-> <<"cache.PullTransaction", "rpc.Transaction">>]

\* proxy.Transaction: cache, hash, the reply rpc.Transaction gives if asked,
\* and whether the cache accepts a put
Transaction(cache, h, reply, putOk) ==
    LET hit == PullTransaction(cache, h) IN
    IF hit # NoTrx
    THEN [trx |-> hit, err |-> ErrNone, cache |-> cache, calls |-> <<"cache.PullTransaction">>]
    ELSE IF reply.err # ErrNone
    THEN [trx |-> NoTrx,
          err |-> IF reply.err = ErrNoResult THEN ErrTransactionNotFound ELSE reply.err,
          cache |-> cache,
          calls |-> <<"cache.PullTransaction", "rpc.Transaction">>]
    ELSE IF reply.trx.blockHash # 0
    THEN LET put == PushTransaction(cache, reply.trx, putOk) IN
         [trx |-> reply.trx, err |-> ErrNone, cache |-> put.cache,
          calls |-> <<"cache.PullTransaction", "rpc.Transaction", "cache.PushTransaction">>]
    ELSE [trx |-> reply.trx, err |-> ErrNone, cache |-> cache,
          calls |-> <<"cache.PullTransaction", "rpc.Transaction">>]

\* Mutant of proxy.SendTransaction: a fetched transaction that is already
\* confirmed is pushed to the cache
SendTransaction_CachesConfirmed(cache, h, sendErr, reply) ==
    IF sendErr # ErrNone
    THEN [trx |-> NoTrx, err |-> sendErr, cache |-> cache, calls |-> <<"rpc.SendTransaction">>]
    ELSE IF reply.err # ErrNone
    THEN [trx |-> NoTrx,
          err |-> IF reply.err = ErrNoResult THEN ErrTransactionNotFound ELSE reply.err,
          cache |-> cache,
          calls |-> <<"rpc.SendTransaction", "rpc.Transaction">>]
    ELSE IF reply.trx.blockHash # 0
    THEN [trx |-> reply.trx, err |-> ErrNone,
          cache |-> PushTransaction(cache, reply.trx, TRUE).cache,
          calls |-> <<"rpc.SendTransaction", "rpc.Transaction", "cache.PushTransaction">>]
    ELSE [trx |-> reply.trx, err |-> ErrNone, cache |-> cache,
          calls |-> <<"rpc.SendTransaction", "rpc.Transaction">>]

\* proxy.SendTransaction: cache, the hash rpc.SendTransaction returns, its
\* error, and the reply of the follow-up rpc.Transaction
SendTransaction(cache, h, sendErr, reply) ==
    IF sendErr # ErrNone
    THEN [trx |-> NoTrx, err |-> sendErr, cache |-> cache, calls |-> <<"rpc.SendTransaction">>]
    ELSE IF reply.err # ErrNone
    THEN [trx |-> NoTrx,
          err |-> IF reply.err = ErrNoResult THEN ErrTransactionNotFound ELSE reply.err,
          cache |-> cache,
          calls |-> <<"rpc.SendTransaction", "rpc.Transaction">>]
    ELSE [trx |-> reply.trx, err |-> ErrNone, cache |-> cache,
          calls |-> <<"rpc.SendTransaction", "rpc.Transaction">>]

(***************************************************************************)
(* Repository facade: the transaction collection.                          *)
(***************************************************************************)
\* proxy.AddTransaction: the stored transactions and contracts, the ordinal
\* of the transaction, whether it deploys a contract, and whether the two
\* appends succeed
\* the contract record is appended whatever the append of the transaction did
AddTransaction_ContractAnyway(db, cons, key, deploys, trxOk, conOk) ==
    LET t == DbAddTransaction(db, key, trxOk) IN
    IF deploys
    THEN LET c == DbAddContract(cons, key, conOk) IN
         [err |-> IF t.err # ErrNone THEN t.err ELSE c.err, db |-> t.db, cons |-> c.db,
          calls |-> <<"db.AddTransaction", "db.AddContract">>]
    ELSE [err |-> t.err, db |-> t.db, cons |-> cons, calls |-> <<"db.AddTransaction">>]

AddTransaction(db, cons, key, deploys, trxOk, conOk) ==
    LET t == DbAddTransaction(db, key, trxOk) IN
    IF t.err # ErrNone
    THEN [err |-> t.err, db |-> t.db, cons |-> cons, calls |-> <<"db.AddTransaction">>]
    ELSE IF deploys
    THEN LET c == DbAddContract(cons, key, conOk) IN
         [err |-> c.err, db |-> t.db, cons |-> c.db,
          calls |-> <<"db.AddTransaction", "db.AddContract">>]
    ELSE [err |-> ErrNone, db |-> t.db, cons |-> cons, calls |-> <<"db.AddTransaction">>]

\* proxy.TransactionsCount: the count of the document store, or its error
TransactionsCount(db, dbOk) ==
    IF ~dbOk THEN [count |-> 0, err |-> ErrDatabase]
    ELSE [count |-> Cardinality(db), err |-> ErrNone]

\* Mutants of proxy.Transactions.
\* the cursor is not handed on: every page starts at an end of the collection
Transactions_DropsCursor(db, cursor, count) == DbTransactions(db, 0, count)

\* one entry more than asked for is requested from the store
Transactions_OneMore(db, cursor, count) ==
    DbTransactions(db, cursor, IF count > 0 THEN count + 1 ELSE count - 1)

\* proxy.Transactions: cursor and count are handed to the document store
Transactions(db, cursor, count) == DbTransactions(db, cursor, count)

(***************************************************************************)
(* Resolver Account.TxList. listLimitCount keeps the count within the      *)
(* limit on either side of zero; AccountTransactions pages the account's   *)
(* transactions by the pagination contract of the document store, and can  *)
(* fail as a whole.                                                        *)
(***************************************************************************)
listLimitCount(count, limit) ==
    IF count > limit THEN limit
    ELSE IF count < -limit THEN -limit
    ELSE count

AccountTransactions(db, cursor, count, dbOk) ==
    IF dbOk THEN DbTransactions(db, cursor, count)
    ELSE [DbTransactions(db, 0, 1) EXCEPT !.edges = <<>>, !.err = ErrDatabase,
             !.first = 0, !.last = 0, !.hasNext = FALSE, !.hasPrevious = FALSE]

\* the resolver hands the requested count on as it came
TxList_NoClamp(db, cursor, count, dbOk) ==
    LET bl == AccountTransactions(db, cursor, count, dbOk)
    IN [passed |-> count, edges |-> bl.edges, err |-> bl.err]

TxList(db, cursor, count, dbOk) ==
    LET passed == listLimitCount(count, accMaxTransactionsPerRequest)
        bl == AccountTransactions(db, cursor, passed, dbOk)
    IN IF bl.err # ErrNone
       THEN [passed |-> passed, edges |-> <<>>, err |-> bl.err]
       ELSE [passed |-> passed, edges |-> bl.edges, err |-> ErrNone]

(***************************************************************************)
(* Repository facade: epochs.                                              *)
(***************************************************************************)
\* Mutant of proxy.Epoch: a cached latest sealed epoch of the same id is
\* returned instead of asking the RPC client
Epoch_FromCache(ec, id, reply) ==
    IF PullLastEpoch(ec) # NoEpoch /\ PullLastEpoch(ec).id = id
    THEN [epoch |-> PullLastEpoch(ec), err |-> ErrNone, cache |-> ec,
          calls |-> <<"cache.PullLastEpoch">>]
    ELSE [epoch |-> reply.epoch, err |-> reply.err, cache |-> ec, calls |-> <<"rpc.Epoch">>]

\* proxy.Epoch: the reply rpc.Epoch gives for the id, passed through
Epoch(ec, id, reply) ==
    [epoch |-> reply.epoch, err |-> reply.err, cache |-> ec, calls |-> <<"rpc.Epoch">>]

\* Mutant of proxy.CurrentSealedEpoch: the error of rpc.Epoch is returned only
\* after the (zero) epoch has been pushed to the cache
CurrentSealedEpoch_CachesFailedEpoch(ec, idReply, epReply, putOk) ==
    LET hit == PullLastEpoch(ec) IN
    IF hit # NoEpoch
    THEN [epoch |-> hit, err |-> ErrNone, cache |-> ec, calls |-> <<"cache.PullLastEpoch">>]
    ELSE IF idReply.err # ErrNone
    THEN [epoch |-> NoEpoch, err |-> idReply.err, cache |-> ec,
          calls |-> <<"cache.PullLastEpoch", "rpc.CurrentSealedEpoch">>]
    ELSE LET put == PushLastEpoch(ec, [epReply.epoch EXCEPT !.id = idReply.id], putOk) IN
         [epoch |-> IF epReply.err # ErrNone THEN NoEpoch ELSE epReply.epoch,
          err |-> epReply.err, cache |-> put.cache,
          calls |-> <<"cache.PullLastEpoch", "rpc.CurrentSealedEpoch", "rpc.Epoch",
                      "cache.PushLastEpoch">>]

\* Mutant of proxy.CurrentSealedEpoch: the node is asked for the sealed id
\* first, and an entry of another id is replaced
CurrentSealedEpoch_Refreshes(ec, idReply, epReply, putOk) ==
    LET hit == PullLastEpoch(ec) IN
    IF hit # NoEpoch /\ (idReply.err # ErrNone \/ hit.id = idReply.id)
    THEN [epoch |-> hit, err |-> ErrNone, cache |-> ec, calls |-> <<"cache.PullLastEpoch">>]
    ELSE IF idReply.err # ErrNone
    THEN [epoch |-> NoEpoch, err |-> idReply.err, cache |-> ec,
          calls |-> <<"cache.PullLastEpoch", "rpc.CurrentSealedEpoch">>]
    ELSE IF epReply.err # ErrNone
    THEN [epoch |-> NoEpoch, err |-> epReply.err, cache |-> ec,
          calls |-> <<"cache.PullLastEpoch", "rpc.CurrentSealedEpoch", "rpc.Epoch">>]
    ELSE LET put == PushLastEpoch(ec, epReply.epoch, putOk) IN
         [epoch |-> epReply.epoch, err |-> ErrNone, cache |-> put.cache,
          calls |-> <<"cache.PullLastEpoch", "rpc.CurrentSealedEpoch", "rpc.Epoch",
                      "cache.PushLastEpoch">>]

\* proxy.CurrentSealedEpoch: the cache entry, the reply rpc.CurrentSealedEpoch
\* gives if asked, the reply rpc.Epoch gives for that id, and whether the cache
\* accepts a put
CurrentSealedEpoch(ec, idReply, epReply, putOk) ==
    LET hit == PullLastEpoch(ec) IN
    IF hit # NoEpoch
    THEN [epoch |-> hit, err |-> ErrNone, cache |-> ec, calls |-> <<"cache.PullLastEpoch">>]
    ELSE IF idReply.err # ErrNone
    THEN [epoch |-> NoEpoch, err |-> idReply.err, cache |-> ec,
          calls |-> <<"cache.PullLastEpoch", "rpc.CurrentSealedEpoch">>]
    ELSE IF epReply.err # ErrNone
    THEN [epoch |-> NoEpoch, err |-> epReply.err, cache |-> ec,
          calls |-> <<"cache.PullLastEpoch", "rpc.CurrentSealedEpoch", "rpc.Epoch">>]
    ELSE LET put == PushLastEpoch(ec, epReply.epoch, putOk) IN
         [epoch |-> epReply.epoch, err |-> ErrNone, cache |-> put.cache,
          calls |-> <<"cache.PullLastEpoch", "rpc.CurrentSealedEpoch", "rpc.Epoch",
                      "cache.PushLastEpoch">>]

(***************************************************************************)
(* Staker assembly of the RPC bridge. An amount the node may leave out is  *)
(* a sequence: empty when absent (a nil pointer), else of the one value.   *)
(***************************************************************************)
Nil == <<>>
Some(v) == <<v>>
Amounts == {Nil} \cup {Some(v) : v \in 0..MaxStake}

\* ratio unit is used to calculate the value (1.000.000)
ratioUnit == 1000000

\* delegation ratios the contract can report, in ratio units
Ratios == {0, 500000, 1500000}

\* what the node can hold of the staker: the amounts and the status of the
\* contract's record, the delegation ratio, the lock, and the amounts the
\* node's own staker record repeats
SfcStates ==
    [stake : Amounts, delegatedMe : Amounts, status : {Nil, Some(1)},
     ratio : Ratios, fromEpoch : {Nil, Some(1)}, endTime : {Nil, Some(1)},
     reported : {Nil, Some(MaxStake + 1)}]

NoStaker ==
    [id |-> 0, stake |-> Nil, delegatedMe |-> Nil, totalStake |-> Nil, status |-> 0,
     totalDelegatedLimit |-> 0, delegatedLimit |-> 0,
     lockedFromEpoch |-> 0, lockedUntil |-> 0]

\* the record the node answers sfc_getStaker and sfc_getStakerByAddress with:
\* it carries no limits and no lock
RpcGetStaker(c) ==
    [NoStaker EXCEPT !.id = 1, !.stake = c.reported, !.delegatedMe = c.reported,
                     !.totalStake = c.reported]

\* the outcome of each call of a lookup
CallOutcomes == {"ok", "fails", "not called"}

StakerOutcomes(c) ==
    {o \in [base : {"ok", "fails"}, inst : CallOutcomes, stakers : CallOutcomes,
            ratio : CallOutcomes, lock : CallOutcomes] :
        /\ (o.inst = "not called") = (o.base = "fails")
        /\ (o.stakers = "not called") = (o.inst # "ok")
        /\ (o.lock = "not called") = (o.inst # "ok")
        /\ (o.ratio = "not called") =
              ~(o.stakers = "ok" /\ c.status # Nil /\ c.stake # Nil
                    /\ c.delegatedMe # Nil)}

\* the limit is rounded up
maxDelegatedLimit_RoundsUp(staked, c, o) ==
    IF staked = Nil THEN 0
    ELSE IF o.ratio # "ok" THEN 0
    ELSE (staked[1] * c.ratio + ratioUnit - 1) \div ratioUnit

maxDelegatedLimit(staked, c, o) ==
    IF staked = Nil THEN 0
    ELSE IF o.ratio # "ok" THEN 0
    ELSE (staked[1] * c.ratio) \div ratioUnit

\* the available limit is never below zero
stakerStatusFromSfc_ClampsRemaining(staker, c, o) ==
    IF o.stakers # "ok" THEN [staker |-> staker, err |-> ErrContract]
    ELSE IF c.status # Nil
    THEN LET st == [staker EXCEPT !.delegatedMe = c.delegatedMe, !.stake = c.stake,
                                  !.status = c.status[1]]
             limit == maxDelegatedLimit(st.stake, c, o)
         IN IF st.stake # Nil /\ st.delegatedMe # Nil
            THEN [staker |-> [st EXCEPT
                                 !.totalStake = Some(c.delegatedMe[1] + c.stake[1]),
                                 !.totalDelegatedLimit = limit,
                                 !.delegatedLimit =
                                     IF limit < st.delegatedMe[1] THEN 0
                                     ELSE limit - st.delegatedMe[1]],
                  err |-> ErrNone]
            ELSE [staker |-> st, err |-> ErrNone]
    ELSE [staker |-> staker, err |-> ErrNone]

stakerStatusFromSfc(staker, c, o) ==
    IF o.stakers # "ok" THEN [staker |-> staker, err |-> ErrContract]
    ELSE IF c.status # Nil
    THEN LET st == [staker EXCEPT !.delegatedMe = c.delegatedMe, !.stake = c.stake,
                                  !.status = c.status[1]]
             limit == maxDelegatedLimit(st.stake, c, o)
         IN IF st.stake # Nil /\ st.delegatedMe # Nil
            THEN [staker |-> [st EXCEPT
                                 !.totalStake = Some(c.delegatedMe[1] + c.stake[1]),
                                 !.totalDelegatedLimit = limit,
                                 !.delegatedLimit = limit - st.delegatedMe[1]],
                  err |-> ErrNone]
            ELSE [staker |-> st, err |-> ErrNone]
    ELSE [staker |-> staker, err |-> ErrNone]

\* each lock value is applied when it is there
stakerLockFromSfc_SetsEither(staker, c, o) ==
    IF o.lock # "ok" THEN [staker |-> staker, err |-> ErrNone]
    ELSE [staker |-> [staker EXCEPT
                         !.lockedFromEpoch =
                             IF c.fromEpoch = Nil THEN 0 ELSE c.fromEpoch[1],
                         !.lockedUntil = IF c.endTime = Nil THEN 0 ELSE c.endTime[1]],
          err |-> ErrNone]

stakerLockFromSfc(staker, c, o) ==
    IF o.lock # "ok" THEN [staker |-> staker, err |-> ErrNone]
    ELSE IF c.fromEpoch = Nil \/ c.endTime = Nil
    THEN [staker |-> staker, err |-> ErrNone]
    ELSE [staker |-> [staker EXCEPT !.lockedFromEpoch = c.fromEpoch[1],
                                    !.lockedUntil = c.endTime[1]],
          err |-> ErrNone]

\* a failed status update ends the lookup
extendStaker_StatusFatal(staker, c, o) ==
    IF o.inst # "ok" THEN [staker |-> NoStaker, found |-> FALSE, err |-> ErrInstantiate]
    ELSE LET a == stakerStatusFromSfc(staker, c, o)
             b == stakerLockFromSfc(a.staker, c, o)
         IN IF a.err # ErrNone
            THEN [staker |-> NoStaker, found |-> FALSE, err |-> a.err]
            ELSE [staker |-> b.staker, found |-> TRUE, err |-> ErrNone]

extendStaker(staker, c, o) ==
    IF o.inst # "ok" THEN [staker |-> NoStaker, found |-> FALSE, err |-> ErrInstantiate]
    ELSE LET a == stakerStatusFromSfc(staker, c, o)
             b == stakerLockFromSfc(a.staker, c, o)
         IN [staker |-> b.staker, found |-> TRUE, err |-> ErrNone]

Staker(c, o) ==
    IF o.base # "ok" THEN [staker |-> NoStaker, found |-> FALSE, err |-> ErrTransport]
    ELSE extendStaker(RpcGetStaker(c), c, o)

StakerByAddress(c, o) ==
    IF o.base # "ok" THEN [staker |-> NoStaker, found |-> FALSE, err |-> ErrTransport]
    ELSE extendStaker(RpcGetStaker(c), c, o)

\* no staker has been looked up since the node's record last changed
NoLookup ==
    [asked |-> FALSE, byAddress |-> FALSE,
     out |-> [base |-> "not called", inst |-> "not called", stakers |-> "not called",
              ratio |-> "not called", lock |-> "not called"],
     staker |-> NoStaker, found |-> FALSE, err |-> ErrNone]

\* the staker the lookup machine leaves alone
IdleSfc ==
    [stake |-> Nil, delegatedMe |-> Nil, status |-> Nil, ratio |-> 0,
     fromEpoch |-> Nil, endTime |-> Nil, reported |-> Nil]

(***************************************************************************)
(* The orchestrator: two loops, one over the node's new-block              *)
(* notifications and one over its new-transaction notifications. A loop    *)
(* takes the notifications of its subscription in the order the node sent  *)
(* them, persists each into the document store and forwards it on the      *)
(* registered output channels with a send that does not wait.              *)
(***************************************************************************)
Kinds == {"block", "trx"}
Subscribers == 1..NumSubs
BlockNumbers == 1..MaxEvents

\* how many notifications the buffer of an output channel holds
ChanCap == 1

\* the highest block number of the stored chain, none stored: no height
Height(store) ==
    IF store = <<>> THEN 0
    ELSE CHOOSE h \in {store[i] : i \in DOMAIN store} :
            \A i \in DOMAIN store : store[i] <= h

\* the append keeps a block whose number is stored already out
DbAddBlock_AlwaysInserts(store, b, ok) ==
    IF ok THEN Append(store, b) ELSE store

DbAddBlock(store, b, ok) ==
    IF ok /\ ~\E i \in DOMAIN store : store[i] = b THEN Append(store, b) ELSE store

\* the loop takes the newest notification waiting
nextNotification_Newest(q, n) == q[Len(q)]

\* the chain the node reports: its first transaction deploys a contract
TrxDeploys(key) == key = 1

\* a loop receives from its subscription: the oldest notification not taken yet
nextNotification(q, n) == q[n + 1]

\* nobody after a subscriber whose channel is full is sent to
forward_StopsAtFull(bufs, registered, item) ==
    LET full == {s \in registered : Len(bufs[s]) >= ChanCap}
    IN [chans |-> [s \in Subscribers |->
                      IF s \in registered /\ ~\E t \in full : t <= s
                      THEN Append(bufs[s], item) ELSE bufs[s]],
        dropped |-> {s \in registered : \E t \in full : t <= s}]

\* select { case ch <- item: default: } on every registered channel
forward(bufs, registered, item) ==
    [chans |-> [s \in Subscribers |->
                   IF s \in registered /\ Len(bufs[s]) < ChanCap
                   THEN Append(bufs[s], item) ELSE bufs[s]],
     dropped |-> {s \in registered : Len(bufs[s]) >= ChanCap}]

setBlockChannel(registered, ch) == registered \cup {ch}
setTrxChannel(registered, ch) == registered \cup {ch}

\* the channel a new subscriber brings: subscribers are numbered as they come
NewChannel(registered) == {s \in Subscribers : s = Cardinality(registered) + 1}

\* no loop has taken a notification since the channels were last touched
NoForward ==
    [kind |-> "none", item |-> 0, ok |-> TRUE, had |-> FALSE,
     doneBefore |-> 0, heightBefore |-> 0,
     before |-> [s \in Subscribers |-> <<>>], registered |-> {}, dropped |-> {}]

(***************************************************************************)
(* Termination. Close of the repository closes the orchestrator, then the  *)
(* document store, then the connection to the node. The orchestrator's     *)
(* close signals both loops to stop, waits until both have exited and      *)
(* releases the subscriptions; closed once, it returns at once.            *)
(***************************************************************************)
\* the calls of proxy.Close, in their order
CloseOrder == <<"orc.close", "db.Close", "rpc.Close">>

\* nobody has closed the repository
NotClosing ==
    [calls |-> 0, at |-> 0, waiting |-> FALSE, sig |-> FALSE, returned |-> 0,
     released |-> 0, dbCloses |-> 0, rpcCloses |-> 0, panicked |-> FALSE]

\* the close forgets that it has run
alreadyClosed_Never(c) == FALSE

\* the orchestrator has been closed before
alreadyClosed(c) == c.returned > 0

\* the close returns once the stop is signalled
closeMayReturn_AfterSignal(l) == TRUE

\* the close waits for both loops
closeMayReturn(l) == \A k \in Kinds : l[k] = "exited"

\* a failed persist ends the loop
afterPersist_ExitsOnFailure(l, ok) == IF ok THEN l ELSE "exited"

\* a loop after the persist of a notification: a failure is logged, the
\* loop goes on
afterPersist(l, ok) == l

\* the call of proxy.Close after the one at position i, none after the last
Advance(i) == IF i >= Len(CloseOrder) THEN 0 ELSE i + 1

(***************************************************************************)
(* Transaction lookups in flight at the same time. proxy.Transaction holds *)
(* no lock: a caller pulls from the cache, asks the node on a miss and     *)
(* pushes a confirmed transaction to the cache, and another caller may run *)
(* between any two of these calls.                                         *)
(***************************************************************************)
Callers == 1..NumCallers

\* a caller that has not called yet
NoCall ==
    [pc |-> "idle", hash |-> 0, conf |-> FALSE, cold |-> FALSE, got |-> NoTrx,
     ret |-> NoTrx, err |-> ErrNone, viaRpc |-> FALSE, pushed |-> FALSE]

\* the caller gets what the cache holds after the push
TransactionResult_FromCache(trx, cache) == cache[trx.hash]

\* return trx, nil
TransactionResult(trx, cache) == trx

(***************************************************************************)
(* The record of the facade operation that has just returned: what it was  *)
(* asked, what the bridges answered (or would have answered) it, the calls *)
(* it made in order, what it returned, and the state it started from.      *)
(***************************************************************************)
NoOp ==
    [op |-> "none", key |-> 0, trx |-> NoTrx, epoch |-> NoEpoch, err |-> ErrNone,
     calls |-> <<>>,
     sendErr |-> ErrNone, replyErr |-> ErrNone, idErr |-> ErrNone, epErr |-> ErrNone,
     putOk |-> TRUE, deploys |-> FALSE, trxOk |-> TRUE, conOk |-> TRUE,
     txBefore |-> [h \in Hashes |-> NoTrx], epBefore |-> NoEpoch,
     nodeBefore |-> "absent", wasFetched |-> FALSE, wasHot |-> FALSE]

\* no page has been asked for since the collection last changed
NoPage ==
    [asked |-> FALSE, cursor |-> 0, count |-> 0, edges |-> <<>>, err |-> ErrNone,
     first |-> 0, last |-> 0, hasNext |-> FALSE, hasPrevious |-> FALSE,
     prevAsked |-> FALSE, prevCursor |-> 0, prevCount |-> 0, prevEdges |-> <<>>,
     walking |-> FALSE, seen |-> <<>>]

\* Account.TxList has not been called yet
NoTxList ==
    [asked |-> FALSE, cursor |-> 0, count |-> 0, passed |-> 0, edges |-> <<>>,
     err |-> ErrNone]

(***************************************************************************)
(* Actions of the lookup machine.                                          *)
(***************************************************************************)
DbVars == <<dbTrx, dbContracts, page, txl>>

\* the orchestrator
OrcVars == <<feed, done, blkLog, blkStore, chans, subs, fwd, loops, closing>>

\* the machines of the staker assembly and of the orchestrator
ExtVars == <<sfc, stk, OrcVars, lookups>>

DoTransaction ==
    \E h \in Hashes, rpcOk \in BOOLEAN, putOk \in BOOLEAN :
        LET reply == RpcTransaction(node, h, rpcOk)
            r == Transaction(txCache, h, reply, putOk)
            viaRpc == Called(r.calls, "rpc.Transaction") /\ r.err = ErrNone
                      /\ r.trx.blockHash # 0
        IN /\ txCache' = r.cache
           /\ fetched' = IF viaRpc THEN fetched \cup {h} ELSE fetched
           /\ hot' = IF viaRpc /\ putOk THEN hot \cup {h} ELSE hot
           /\ last' = [NoOp EXCEPT !.op = "Transaction", !.key = h, !.trx = r.trx,
                          !.err = r.err, !.calls = r.calls,
                          !.replyErr = reply.err, !.putOk = putOk,
                          !.txBefore = txCache, !.epBefore = epochCache,
                          !.nodeBefore = node[h],
                          !.wasFetched = h \in fetched, !.wasHot = h \in hot]
           /\ UNCHANGED <<node, sealed, epochCache>>
           /\ UNCHANGED DbVars
           /\ UNCHANGED ExtVars

\* the node accepts a raw transaction only if it does not know it yet; once
\* accepted it is pending, already mined, or dropped again by the time the
\* follow-up rpc.Transaction asks for it
DoSendTransaction ==
    \E h \in Hashes, sendOk \in BOOLEAN :
    \E rpcOk \in IF sendOk /\ node[h] = "absent" THEN BOOLEAN ELSE {TRUE},
       landed \in IF sendOk /\ node[h] = "absent"
                  THEN {"absent", "pending", "confirmed"} ELSE {node[h]} :
        LET accepted == sendOk /\ node[h] = "absent"
            nd == IF accepted THEN [node EXCEPT ![h] = landed] ELSE node
            sendErr == IF accepted THEN ErrNone ELSE ErrSubmit
            reply == RpcTransaction(nd, h, rpcOk)
            r == SendTransaction(txCache, h, sendErr, reply)
        IN /\ node' = nd
           /\ txCache' = r.cache
           /\ last' = [NoOp EXCEPT !.op = "SendTransaction", !.key = h, !.trx = r.trx,
                          !.err = r.err, !.calls = r.calls,
                          !.sendErr = sendErr, !.replyErr = reply.err,
                          !.txBefore = txCache, !.epBefore = epochCache,
                          !.nodeBefore = node[h],
                          !.wasFetched = h \in fetched, !.wasHot = h \in hot]
           /\ UNCHANGED <<sealed, epochCache, fetched, hot>>
           /\ UNCHANGED DbVars
           /\ UNCHANGED ExtVars

DoCurrentSealedEpoch ==
    \E idOut \in ContractOutcomes, epOut \in ContractOutcomes, putOk \in BOOLEAN :
        LET idReply == RpcCurrentSealedEpoch(sealed, idOut)
            epReply == RpcEpoch(sealed, idReply.id, epOut)
            r == CurrentSealedEpoch(epochCache, idReply, epReply, putOk)
        IN /\ epochCache' = r.cache
           /\ last' = [NoOp EXCEPT !.op = "CurrentSealedEpoch", !.key = sealed,
                          !.epoch = r.epoch, !.err = r.err, !.calls = r.calls,
                          !.idErr = idReply.err, !.epErr = epReply.err, !.putOk = putOk,
                          !.txBefore = txCache, !.epBefore = epochCache]
           /\ UNCHANGED <<node, sealed, txCache, fetched, hot>>
           /\ UNCHANGED DbVars
           /\ UNCHANGED ExtVars

\* a by-id lookup may name any epoch, sealed or not
DoEpoch ==
    \E id \in 0..(MaxEpoch + 1), out \in ContractOutcomes :
        LET epReply == RpcEpoch(sealed, id, out)
            r == Epoch(epochCache, id, epReply)
        IN /\ epochCache' = r.cache
           /\ last' = [NoOp EXCEPT !.op = "Epoch", !.key = id,
                          !.epoch = r.epoch, !.err = r.err, !.calls = r.calls,
                          !.epErr = epReply.err,
                          !.txBefore = txCache, !.epBefore = epochCache]
           /\ UNCHANGED <<node, sealed, txCache, fetched, hot>>
           /\ UNCHANGED DbVars
           /\ UNCHANGED ExtVars

\* the chain includes a pending transaction in a block
NodeConfirm ==
    \E h \in Hashes :
        /\ node[h] = "pending"
        /\ node' = [node EXCEPT ![h] = "confirmed"]
        /\ last' = NoOp
        /\ UNCHANGED <<sealed, txCache, epochCache, fetched, hot>>
        /\ UNCHANGED DbVars
        /\ UNCHANGED ExtVars

\* the SFC contract seals the next epoch
NodeSealEpoch ==
    /\ sealed < MaxEpoch
    /\ sealed' = sealed + 1
    /\ last' = NoOp
    /\ UNCHANGED <<node, txCache, epochCache, fetched, hot>>
    /\ UNCHANGED DbVars
    /\ UNCHANGED ExtVars

\* the cache bridge drops a transaction entry (TTL or memory pressure)
CacheEvictTransaction ==
    \E h \in Hashes :
        /\ txCache[h] # NoTrx
        /\ txCache' = [txCache EXCEPT ![h] = NoTrx]
        /\ hot' = hot \ {h}
        /\ last' = NoOp
        /\ UNCHANGED <<node, sealed, epochCache, fetched>>
        /\ UNCHANGED DbVars
        /\ UNCHANGED ExtVars

\* the cache bridge drops the latest-sealed-epoch entry (TTL or memory pressure)
CacheEvictEpoch ==
    /\ epochCache # NoEpoch
    /\ epochCache' = NoEpoch
    /\ last' = NoOp
    /\ UNCHANGED <<node, sealed, txCache, fetched, hot>>
    /\ UNCHANGED DbVars
    /\ UNCHANGED ExtVars

InitLookup ==
    /\ node = [h \in Hashes |-> "absent"]
    /\ sealed = 1
    /\ txCache = [h \in Hashes |-> NoTrx]
    /\ epochCache = NoEpoch
    /\ fetched = {}
    /\ hot = {}
    /\ last = NoOp

\* the machines a specification leaves alone
InitOrc ==
    /\ feed = [k \in Kinds |-> <<>>]
    /\ done = [k \in Kinds |-> 0]
    /\ blkLog = <<>>
    /\ blkStore = <<>>
    /\ chans = [k \in Kinds |-> [s \in Subscribers |-> <<>>]]
    /\ subs = [k \in Kinds |-> {}]
    /\ fwd = NoForward
    /\ loops = [k \in Kinds |-> "running"]
    /\ closing = NotClosing

InitExt ==
    /\ sfc = IdleSfc
    /\ stk = NoLookup
    /\ InitOrc
    /\ lookups = [c \in Callers |-> NoCall]

Init ==
    /\ InitLookup
    /\ dbTrx = {}
    /\ dbContracts = {}
    /\ page = NoPage
    /\ txl = NoTxList
    /\ InitExt

Next ==
    \/ DoTransaction
    \/ DoSendTransaction
    \/ DoCurrentSealedEpoch
    \/ DoEpoch
    \/ NodeConfirm
    \/ NodeSealEpoch
    \/ CacheEvictTransaction
    \/ CacheEvictEpoch

Spec == Init /\ [][Next]_vars

(***************************************************************************)
(* Actions of the paging machine.                                          *)
(***************************************************************************)
LookupVars == <<node, sealed, txCache, epochCache, fetched, hot>>

\* the orchestrator hands a new transaction of the chain to the repository
DoAddTransaction ==
    \E key \in Ordinals, deploys \in BOOLEAN, trxOk \in BOOLEAN, conOk \in BOOLEAN :
        LET r == AddTransaction(dbTrx, dbContracts, key, deploys, trxOk, conOk)
        IN /\ (~deploys \/ ~trxOk) => conOk
           /\ dbTrx' = r.db
           /\ dbContracts' = r.cons
           /\ page' = NoPage
           /\ last' = [NoOp EXCEPT !.op = "AddTransaction", !.key = key, !.err = r.err,
                          !.calls = r.calls, !.deploys = deploys, !.trxOk = trxOk,
                          !.conOk = conOk, !.txBefore = txCache, !.epBefore = epochCache]
           /\ UNCHANGED <<LookupVars, txl>>
           /\ UNCHANGED ExtVars

\* a page request carries no cursor, or the cursor of a stored entry
DoTransactions ==
    \E cursor \in {0} \cup dbTrx, count \in Counts :
        LET r == Transactions(dbTrx, cursor, count)
            \* the request takes up the last cursor of the page before it, with
            \* the same count or the same count the other way
            follows == /\ page.asked /\ page.last # 0 /\ cursor = page.last
                       /\ (count = page.count \/ count = -page.count)
            \* the request is part of a walk from the top: forward pages, each
            \* asked for with the last cursor of the one before
            walking == \/ cursor = 0 /\ count > 0
                       \/ page.walking /\ follows /\ count = page.count
        IN /\ page' = [asked |-> TRUE, cursor |-> cursor, count |-> count,
                       edges |-> r.edges, err |-> r.err, first |-> r.first,
                       last |-> r.last, hasNext |-> r.hasNext,
                       hasPrevious |-> r.hasPrevious,
                       prevAsked |-> follows,
                       prevCursor |-> IF follows THEN page.cursor ELSE 0,
                       prevCount |-> IF follows THEN page.count ELSE 0,
                       prevEdges |-> IF follows THEN page.edges ELSE <<>>,
                       walking |-> walking,
                       seen |-> IF cursor = 0 /\ count > 0 THEN r.edges
                                ELSE IF walking THEN page.seen \o r.edges ELSE <<>>]
           /\ last' = [NoOp EXCEPT !.op = "Transactions", !.err = r.err,
                          !.calls = <<"db.Transactions">>,
                          !.txBefore = txCache, !.epBefore = epochCache]
           /\ UNCHANGED <<dbTrx, dbContracts, txl>>
           /\ UNCHANGED LookupVars
           /\ UNCHANGED ExtVars

NextPage ==
    \/ DoAddTransaction
    \/ DoTransactions

SpecPage == Init /\ [][NextPage]_vars

(***************************************************************************)
(* The account machine: the store holds the transactions of the one        *)
(* account the resolver stands for, the oldest so many of the chain.       *)
(***************************************************************************)
InitTxList ==
    /\ InitLookup
    /\ dbTrx \in {1..k : k \in 0..MaxEntries}
    /\ dbContracts = {}
    /\ page = NoPage
    /\ txl = NoTxList
    /\ InitExt

DoTxList ==
    \E cursor \in {0} \cup dbTrx, count \in TxListCounts, dbOk \in BOOLEAN :
        LET r == TxList(dbTrx, cursor, count, dbOk)
        IN /\ txl' = [asked |-> TRUE, cursor |-> cursor, count |-> count,
                      passed |-> r.passed, edges |-> r.edges, err |-> r.err]
           /\ last' = [NoOp EXCEPT !.op = "TxList", !.err = r.err,
                          !.calls = <<"db.AccountTransactions">>,
                          !.txBefore = txCache, !.epBefore = epochCache]
           /\ UNCHANGED <<dbTrx, dbContracts, page>>
           /\ UNCHANGED LookupVars
           /\ UNCHANGED ExtVars

NextTxList == DoTxList

SpecTxList == InitTxList /\ [][NextTxList]_vars

(***************************************************************************)
(* The staker machine: lookups of the one staker by id and by address,     *)
(* over whatever the node holds of it.                                     *)
(***************************************************************************)
StoreVars == <<dbTrx, dbContracts, page, txl>>

DoStaker ==
    \E o \in StakerOutcomes(sfc) :
        LET r == Staker(sfc, o)
        IN /\ stk' = [asked |-> TRUE, byAddress |-> FALSE, out |-> o,
                      staker |-> r.staker, found |-> r.found, err |-> r.err]
           /\ UNCHANGED <<sfc, last>>
           /\ UNCHANGED <<LookupVars, StoreVars, OrcVars, lookups>>

DoStakerByAddress ==
    \E o \in StakerOutcomes(sfc) :
        LET r == StakerByAddress(sfc, o)
        IN /\ stk' = [asked |-> TRUE, byAddress |-> TRUE, out |-> o,
                      staker |-> r.staker, found |-> r.found, err |-> r.err]
           /\ UNCHANGED <<sfc, last>>
           /\ UNCHANGED <<LookupVars, StoreVars, OrcVars, lookups>>

\* the chain moves on: stake is added or withdrawn, delegations come and go
SfcStakeChanges ==
    \E s \in Amounts, d \in Amounts :
        /\ sfc' = [sfc EXCEPT !.stake = s, !.delegatedMe = d]
        /\ sfc' # sfc
        /\ stk' = NoLookup
        /\ UNCHANGED last
        /\ UNCHANGED <<LookupVars, StoreVars, OrcVars, lookups>>

InitStaker ==
    /\ InitLookup
    /\ dbTrx = {}
    /\ dbContracts = {}
    /\ page = NoPage
    /\ txl = NoTxList
    /\ sfc \in SfcStates
    /\ stk = NoLookup
    /\ InitOrc
    /\ lookups = [c \in Callers |-> NoCall]

NextStaker ==
    \/ DoStaker
    \/ DoStakerByAddress
    \/ SfcStakeChanges

SpecStaker == InitStaker /\ [][NextStaker]_vars

(***************************************************************************)
(* The orchestrator machine.                                               *)
(***************************************************************************)
QueryVars == <<last, txl, sfc, stk, lookups>>

\* the node notifies of a block: the next of the chain, the newest once
\* more, or the one before it
NodeNewBlock ==
    \E b \in BlockNumbers :
        /\ closing.released = 0
        /\ Len(feed["block"]) + Len(feed["trx"]) < MaxEvents
        /\ b \in {Height(feed["block"]) + 1, Height(feed["block"]),
                  Height(feed["block"]) - 1}
        /\ feed' = [feed EXCEPT !["block"] = Append(@, b)]
        /\ fwd' = NoForward
        /\ UNCHANGED <<done, blkLog, blkStore, chans, subs>>
        /\ UNCHANGED <<LookupVars, QueryVars, dbTrx, dbContracts, page, loops, closing>>

\* the node notifies of a transaction: the next of the chain
NodeNewTrx ==
    LET key == Len(feed["trx"]) + 1
    IN  /\ closing.released = 0
        /\ Len(feed["block"]) + Len(feed["trx"]) < MaxEvents
        /\ key \in Ordinals
        /\ feed' = [feed EXCEPT !["trx"] = Append(@, key)]
        /\ fwd' = NoForward
        /\ UNCHANGED <<done, blkLog, blkStore, chans, subs>>
        /\ UNCHANGED <<LookupVars, QueryVars, dbTrx, dbContracts, page, loops, closing>>

\* the node notifies of its newest transaction once more
NodeRepeatsTrx ==
    LET key == Len(feed["trx"])
    IN  /\ closing.released = 0
        /\ Len(feed["block"]) + Len(feed["trx"]) < MaxEvents
        /\ key \in Ordinals
        /\ feed' = [feed EXCEPT !["trx"] = Append(@, key)]
        /\ fwd' = NoForward
        /\ UNCHANGED <<done, blkLog, blkStore, chans, subs>>
        /\ UNCHANGED <<LookupVars, QueryVars, dbTrx, dbContracts, page, loops, closing>>

BlockLoopStep ==
    /\ loops["block"] = "running"
    /\ done["block"] < Len(feed["block"])
    /\ \E ok \in BOOLEAN :
        LET b == nextNotification(feed["block"], done["block"])
            f == forward(chans["block"], subs["block"], b)
        IN /\ blkLog' = Append(blkLog, b)
           /\ blkStore' = DbAddBlock(blkStore, b, ok)
           /\ chans' = [chans EXCEPT !["block"] = f.chans]
           /\ done' = [done EXCEPT !["block"] = @ + 1]
           /\ fwd' = [kind |-> "block", item |-> b, ok |-> ok,
                      had |-> \E i \in DOMAIN blkStore : blkStore[i] = b,
                      doneBefore |-> done["block"],
                      heightBefore |-> Height(blkStore),
                      before |-> chans["block"], registered |-> subs["block"],
                      dropped |-> f.dropped]
           /\ loops' = [loops EXCEPT !["block"] = afterPersist(@, ok)]
           /\ UNCHANGED <<feed, subs>>
           /\ UNCHANGED <<LookupVars, QueryVars, dbTrx, dbContracts, page, closing>>

TrxLoopStep ==
    /\ loops["trx"] = "running"
    /\ done["trx"] < Len(feed["trx"])
    /\ \E trxOk \in BOOLEAN, conOk \in BOOLEAN :
        LET key == nextNotification(feed["trx"], done["trx"])
            deploys == TrxDeploys(key)
            r == AddTransaction(dbTrx, dbContracts, key, deploys, trxOk, conOk)
            f == forward(chans["trx"], subs["trx"], key)
        IN /\ (~deploys \/ ~trxOk) => conOk
           /\ dbTrx' = r.db
           /\ dbContracts' = r.cons
           /\ page' = NoPage
           /\ chans' = [chans EXCEPT !["trx"] = f.chans]
           /\ done' = [done EXCEPT !["trx"] = @ + 1]
           /\ fwd' = [kind |-> "trx", item |-> key, ok |-> r.err = ErrNone,
                      had |-> key \in dbTrx,
                      doneBefore |-> done["trx"],
                      heightBefore |-> Height(blkStore),
                      before |-> chans["trx"], registered |-> subs["trx"],
                      dropped |-> f.dropped]
           /\ loops' = [loops EXCEPT !["trx"] = afterPersist(@, r.err = ErrNone)]
           /\ UNCHANGED <<feed, subs, blkLog, blkStore>>
           /\ UNCHANGED <<LookupVars, QueryVars, closing>>

DoSetBlockChannel ==
    \E ch \in NewChannel(subs["block"]) :
        /\ subs' = [subs EXCEPT !["block"] = setBlockChannel(@, ch)]
        /\ fwd' = NoForward
        /\ UNCHANGED <<feed, done, blkLog, blkStore, chans>>
        /\ UNCHANGED <<LookupVars, QueryVars, dbTrx, dbContracts, page, loops, closing>>

DoSetTrxChannel ==
    \E ch \in NewChannel(subs["trx"]) :
        /\ subs' = [subs EXCEPT !["trx"] = setTrxChannel(@, ch)]
        /\ fwd' = NoForward
        /\ UNCHANGED <<feed, done, blkLog, blkStore, chans>>
        /\ UNCHANGED <<LookupVars, QueryVars, dbTrx, dbContracts, page, loops, closing>>

\* a subscriber takes the oldest notification off its channel
SubscriberReceives ==
    \E k \in Kinds, s \in Subscribers :
        /\ chans[k][s] # <<>>
        /\ chans' = [chans EXCEPT ![k][s] = Tail(@)]
        /\ fwd' = NoForward
        /\ UNCHANGED <<feed, done, blkLog, blkStore, subs>>
        /\ UNCHANGED <<LookupVars, QueryVars, dbTrx, dbContracts, page, loops, closing>>

NextOrc ==
    \/ NodeNewBlock
    \/ NodeNewTrx
    \/ BlockLoopStep
    \/ TrxLoopStep
    \/ DoSetBlockChannel
    \/ DoSetTrxChannel
    \/ SubscriberReceives

SpecOrc == Init /\ [][NextOrc]_vars

(***************************************************************************)
(* Closing the repository.                                                 *)
(***************************************************************************)
OrcState == <<feed, done, blkLog, blkStore, chans, subs>>

CloseQuiet == <<LookupVars, QueryVars, dbTrx, dbContracts, page, OrcState>>

\* proxy.Close is called
DoClose ==
    /\ closing.at = 0
    /\ ~closing.panicked
    /\ closing.calls < MaxCloses
    /\ closing' = [closing EXCEPT !.calls = @ + 1, !.at = 1]
    /\ fwd' = NoForward
    /\ UNCHANGED <<loops, CloseQuiet>>

\* orchestrator.close is entered: closed before, it returns at once, else
\* it signals the loops to stop; signalling a second time panics
OrcCloseBegin ==
    /\ closing.at > 0
    /\ CloseOrder[closing.at] = "orc.close"
    /\ ~closing.waiting
    /\ ~closing.panicked
    /\ closing' =
          IF alreadyClosed(closing)
          THEN [closing EXCEPT !.returned = @ + 1, !.at = Advance(@)]
          ELSE IF closing.sig
          THEN [closing EXCEPT !.panicked = TRUE]
          ELSE [closing EXCEPT !.sig = TRUE, !.waiting = TRUE]
    /\ fwd' = NoForward
    /\ UNCHANGED <<loops, CloseQuiet>>

\* a loop sees the signal between two notifications and exits
LoopExit ==
    \E k \in Kinds :
        /\ closing.sig
        /\ loops[k] = "running"
        /\ loops' = [loops EXCEPT ![k] = "exited"]
        /\ fwd' = NoForward
        /\ UNCHANGED <<closing, CloseQuiet>>

\* orchestrator.close has waited for the loops: it releases the
\* subscriptions and returns
OrcCloseReturn ==
    /\ closing.waiting
    /\ closeMayReturn(loops)
    /\ closing' = [closing EXCEPT !.waiting = FALSE, !.released = @ + 1,
                                  !.returned = @ + 1, !.at = Advance(@)]
    /\ fwd' = NoForward
    /\ UNCHANGED <<loops, CloseQuiet>>

DbClose ==
    /\ closing.at > 0
    /\ CloseOrder[closing.at] = "db.Close"
    /\ closing' = [closing EXCEPT !.dbCloses = @ + 1, !.at = Advance(@)]
    /\ fwd' = NoForward
    /\ UNCHANGED <<loops, CloseQuiet>>

RpcClose ==
    /\ closing.at > 0
    /\ CloseOrder[closing.at] = "rpc.Close"
    /\ closing' = [closing EXCEPT !.rpcCloses = @ + 1, !.at = Advance(@)]
    /\ fwd' = NoForward
    /\ UNCHANGED <<loops, CloseQuiet>>

\* the repository serving the subscribers whose channels are registered
InitServing(registered) ==
    /\ InitLookup
    /\ dbTrx = {}
    /\ dbContracts = {}
    /\ page = NoPage
    /\ txl = NoTxList
    /\ sfc = IdleSfc
    /\ stk = NoLookup
    /\ feed = [k \in Kinds |-> <<>>]
    /\ done = [k \in Kinds |-> 0]
    /\ blkLog = <<>>
    /\ blkStore = <<>>
    /\ chans = [k \in Kinds |-> [s \in Subscribers |-> <<>>]]
    /\ subs = [k \in Kinds |-> registered]
    /\ fwd = NoForward
    /\ loops = [k \in Kinds |-> "running"]
    /\ closing = NotClosing
    /\ lookups = [c \in Callers |-> NoCall]

\* every subscriber is served
InitClose == InitServing(Subscribers)

\* the first subscriber is served
InitLoops == InitServing({1})

NextClose ==
    \/ NodeNewBlock
    \/ NodeNewTrx
    \/ BlockLoopStep
    \/ TrxLoopStep
    \/ DoClose
    \/ OrcCloseBegin
    \/ LoopExit
    \/ OrcCloseReturn
    \/ DbClose
    \/ RpcClose

SpecClose == InitClose /\ [][NextClose]_vars

\* what a lookup in flight leaves alone
RaceQuiet == <<sealed, epochCache, fetched, hot, last, DbVars, sfc, stk, OrcVars>>

\* a caller enters proxy.Transaction
CallTransaction ==
    \E c \in Callers, h \in Hashes :
        /\ lookups[c].pc = "idle"
        /\ lookups' = [lookups EXCEPT ![c] =
                          [NoCall EXCEPT !.pc = "pull", !.hash = h,
                                         !.conf = (node[h] = "confirmed"),
                                         !.cold = (txCache[h] = NoTrx)]]
        /\ UNCHANGED <<node, txCache, RaceQuiet>>

\* p.cache.PullTransaction(hash): a hit is returned
TransactionPull ==
    \E c \in Callers :
        LET l == lookups[c]
            hit == PullTransaction(txCache, l.hash)
        IN /\ l.pc = "pull"
           /\ lookups' = [lookups EXCEPT ![c] =
                             IF hit # NoTrx
                             THEN [l EXCEPT !.pc = "done", !.ret = hit]
                             ELSE [l EXCEPT !.pc = "rpc"]]
           /\ UNCHANGED <<node, txCache, RaceQuiet>>

\* p.rpc.Transaction(hash): an error is returned, a pending transaction is
\* returned as it is, a confirmed one goes on to the cache
TransactionRpc ==
    \E c \in Callers, rpcOk \in BOOLEAN :
        LET l == lookups[c]
            reply == RpcTransaction(node, l.hash, rpcOk)
        IN /\ l.pc = "rpc"
           /\ lookups' = [lookups EXCEPT ![c] =
                             IF reply.err # ErrNone
                             THEN [l EXCEPT !.pc = "done",
                                            !.err = IF reply.err = ErrNoResult
                                                    THEN ErrTransactionNotFound
                                                    ELSE reply.err]
                             ELSE IF reply.trx.blockHash # 0
                             THEN [l EXCEPT !.pc = "push", !.got = reply.trx,
                                            !.viaRpc = TRUE]
                             ELSE [l EXCEPT !.pc = "done", !.got = reply.trx,
                                            !.ret = reply.trx, !.viaRpc = TRUE]]
           /\ UNCHANGED <<node, txCache, RaceQuiet>>

\* p.cache.PushTransaction(trx), its error logged, and the return
TransactionPush ==
    \E c \in Callers, putOk \in BOOLEAN :
        LET l == lookups[c]
            put == PushTransaction(txCache, l.got, putOk)
        IN /\ l.pc = "push"
           /\ txCache' = put.cache
           /\ lookups' = [lookups EXCEPT ![c] =
                             [l EXCEPT !.pc = "done", !.pushed = putOk,
                                       !.ret = TransactionResult(l.got, put.cache)]]
           /\ UNCHANGED <<node, RaceQuiet>>

\* the cache cold; the node knows every hash, confirmed or still pending
InitRace ==
    /\ node \in {[h \in Hashes |-> IF h <= n THEN "confirmed" ELSE "pending"] :
                    n \in 0..NumHashes}
    /\ sealed = 1
    /\ txCache = [h \in Hashes |-> NoTrx]
    /\ epochCache = NoEpoch
    /\ fetched = {}
    /\ hot = {}
    /\ last = NoOp
    /\ dbTrx = {}
    /\ dbContracts = {}
    /\ page = NoPage
    /\ txl = NoTxList
    /\ InitExt

NextRace ==
    \/ CallTransaction
    \/ TransactionPull
    \/ TransactionRpc
    \/ TransactionPush
    \/ NodeConfirm

SpecRace == InitRace /\ [][NextRace]_vars

\* the repository with its cache cold, or warm with a confirmed transaction
InitAdd ==
    /\ node \in {[h \in Hashes |-> IF h <= n THEN "confirmed" ELSE "absent"] :
                    n \in 0..NumHashes}
    /\ sealed = 1
    /\ txCache = [h \in Hashes |-> IF node[h] = "confirmed"
                                     THEN NodeTrx("confirmed", h) ELSE NoTrx]
    /\ epochCache \in {NoEpoch, RpcEpoch(sealed, sealed, "ok").epoch}
    /\ fetched = {h \in Hashes : node[h] = "confirmed"}
    /\ hot = fetched
    /\ last = NoOp
    /\ dbTrx = {}
    /\ dbContracts = {}
    /\ page = NoPage
    /\ txl = NoTxList
    /\ InitExt

NextAdd == DoAddTransaction

SpecAdd == InitAdd /\ [][NextAdd]_vars

\* the document store under the appends of the loops, a notification may
\* come again
NextStore ==
    \/ NodeNewBlock
    \/ NodeNewTrx
    \/ NodeRepeatsTrx
    \/ BlockLoopStep
    \/ TrxLoopStep

SpecStore == Init /\ [][NextStore]_vars

\* the loops at work, nobody closing: each loop is a goroutine of its own
\* that runs whenever a notification waits for it
NextLoops ==
    \/ NodeNewBlock
    \/ NodeNewTrx
    \/ BlockLoopStep
    \/ TrxLoopStep
    \/ SubscriberReceives

SpecLoops ==
    /\ InitLoops
    /\ [][NextLoops]_vars
    /\ WF_vars(BlockLoopStep)
    /\ WF_vars(TrxLoopStep)

(***************************************************************************)
(* C1 as stated: for a confirmed transaction, once a Transaction lookup    *)
(* has fetched and returned it, every later Transaction lookup of the same *)
(* hash is served from the cache alone, with no RPC or store call.         *)
(***************************************************************************)
C1_ServedFromCacheOnceFetched ==
    (last.op = "Transaction" /\ last.wasFetched)
        => last.calls = <<"cache.PullTransaction">>

(***************************************************************************)
(* C1 amended: once a Transaction lookup has fetched a confirmed           *)
(* transaction and the cache accepted the put, a later Transaction lookup  *)
(* of the same hash, made while the cache still keeps the entry, returns   *)
(* that transaction from the cache and makes no RPC or store call.         *)
(***************************************************************************)
C1_ServedFromCacheWhileKept ==
    (last.op = "Transaction" /\ last.wasHot)
        => /\ last.calls = <<"cache.PullTransaction">>
           /\ ~CallsAny(last.calls, RpcCallNames \cup DbCallNames)
           /\ last.err = ErrNone
           /\ last.trx = NodeTrx("confirmed", last.key)

C1_Witness ==
    /\ last.op = "Transaction"
    /\ last.wasHot
    /\ last.calls = <<"cache.PullTransaction">>
    /\ last.trx.blockHash # 0

(***************************************************************************)
(* C2: the cache never holds a transaction whose block reference is nil;   *)
(* a pending transaction returned by Transaction is not found by a         *)
(* cache-only probe afterwards, and a lookup of a hash that is pending on  *)
(* the node always asks the RPC client.                                    *)
(***************************************************************************)
C2_PendingNeverCached ==
    /\ \A h \in Hashes :
          PullTransaction(txCache, h) # NoTrx
              => /\ PullTransaction(txCache, h).blockHash # 0
                 /\ PullTransaction(txCache, h).hash = h
    /\ (last.op = "Transaction" /\ last.err = ErrNone /\ last.trx.blockHash = 0)
          => PullTransaction(txCache, last.key) = NoTrx
    /\ (last.op = "Transaction" /\ last.nodeBefore = "pending")
          => /\ Called(last.calls, "rpc.Transaction")
             /\ (last.replyErr = ErrNone => last.trx = NodeTrx("pending", last.key))

C2_Witness ==
    /\ last.op = "Transaction"
    /\ last.nodeBefore = "pending"
    /\ last.err = ErrNone
    /\ last.trx = NodeTrx("pending", last.key)
    /\ \E h \in Hashes : txCache[h] # NoTrx

(***************************************************************************)
(* C3: when the RPC client reports no result, Transaction returns          *)
(* ErrTransactionNotFound; any other RPC error is returned as it is; in    *)
(* both cases no transaction is returned, nothing is written to the cache, *)
(* and the hash is still a cache miss, so the next lookup asks the RPC     *)
(* client again (every lookup that misses the cache does).                 *)
(***************************************************************************)
C3_NotFoundAndErrorsNotCached ==
    last.op = "Transaction" =>
        /\ last.txBefore[last.key] = NoTrx => Called(last.calls, "rpc.Transaction")
        /\ (last.txBefore[last.key] = NoTrx /\ last.replyErr # ErrNone) =>
              /\ last.err = IF last.replyErr = ErrNoResult
                            THEN ErrTransactionNotFound ELSE last.replyErr
              /\ last.trx = NoTrx
              /\ ~Called(last.calls, "cache.PushTransaction")
              /\ txCache = last.txBefore
              /\ PullTransaction(txCache, last.key) = NoTrx

C3_Witness ==
    /\ last.op = "Transaction"
    /\ last.replyErr = ErrNoResult
    /\ last.err = ErrTransactionNotFound
    /\ \E h \in Hashes : txCache[h] # NoTrx

(***************************************************************************)
(* C4: SendTransaction makes no cache call and leaves the cache as it was, *)
(* whether the submission fails, the follow-up fetch fails, or the fetched *)
(* transaction (pending or already confirmed) is returned; after a failed  *)
(* submission it makes no follow-up fetch.                                 *)
(***************************************************************************)
C4_SendBypassesCache ==
    last.op = "SendTransaction" =>
        /\ ~CallsAny(last.calls, CacheCallNames)
        /\ txCache = last.txBefore
        /\ epochCache = last.epBefore
        /\ last.sendErr # ErrNone =>
              /\ last.calls = <<"rpc.SendTransaction">>
              /\ last.err = last.sendErr
              /\ last.trx = NoTrx
        /\ last.sendErr = ErrNone =>
              /\ last.calls = <<"rpc.SendTransaction", "rpc.Transaction">>
              /\ last.replyErr = ErrNone => last.err = ErrNone

C4_Witness ==
    /\ last.op = "SendTransaction"
    /\ last.err = ErrNone
    /\ last.trx.blockHash # 0
    /\ txCache[last.key] = NoTrx

(***************************************************************************)
(* C5: when the cache refuses the put that Transaction (PushTransaction)   *)
(* or CurrentSealedEpoch (PushLastEpoch) makes, the operation still        *)
(* returns the entity it fetched, with no error.                           *)
(***************************************************************************)
C5_PutFailureSwallowed ==
    /\ (last.op = "Transaction" /\ ~last.putOk /\ last.txBefore[last.key] = NoTrx
            /\ last.replyErr = ErrNone)
          => /\ last.err = ErrNone
             /\ last.trx = NodeTrx(last.nodeBefore, last.key)
    /\ (last.op = "CurrentSealedEpoch" /\ ~last.putOk /\ last.epBefore = NoEpoch
            /\ last.idErr = ErrNone /\ last.epErr = ErrNone)
          => /\ last.err = ErrNone
             /\ last.epoch = [id |-> sealed, endTime |-> EpochSnapshots(sealed, sealed).endTime]

C5_Witness ==
    /\ last.op = "Transaction"
    /\ ~last.putOk
    /\ Called(last.calls, "cache.PushTransaction")
    /\ last.err = ErrNone
    /\ txCache[last.key] = NoTrx

(***************************************************************************)
(* C6: CurrentSealedEpoch is cache-aside. On a hit it returns the cached   *)
(* epoch and calls nothing but the cache probe. On a miss it asks the RPC  *)
(* client for the sealed epoch id and then for that epoch, puts the epoch  *)
(* into the cache and returns it. If either RPC call fails it returns that *)
(* error, makes no put, and the cache stays empty.                         *)
(***************************************************************************)
C6_SealedEpochCacheAside ==
    last.op = "CurrentSealedEpoch" =>
        /\ last.epBefore # NoEpoch =>
              /\ last.calls = <<"cache.PullLastEpoch">>
              /\ last.epoch = last.epBefore
              /\ last.err = ErrNone
              /\ epochCache = last.epBefore
        /\ (last.epBefore = NoEpoch /\ last.idErr # ErrNone) =>
              /\ last.calls = <<"cache.PullLastEpoch", "rpc.CurrentSealedEpoch">>
              /\ last.err = last.idErr
              /\ last.epoch = NoEpoch
              /\ epochCache = NoEpoch
        /\ (last.epBefore = NoEpoch /\ last.idErr = ErrNone /\ last.epErr # ErrNone) =>
              /\ last.calls = <<"cache.PullLastEpoch", "rpc.CurrentSealedEpoch", "rpc.Epoch">>
              /\ last.err = last.epErr
              /\ last.epoch = NoEpoch
              /\ epochCache = NoEpoch
        /\ (last.epBefore = NoEpoch /\ last.idErr = ErrNone /\ last.epErr = ErrNone) =>
              /\ last.calls = <<"cache.PullLastEpoch", "rpc.CurrentSealedEpoch", "rpc.Epoch",
                                "cache.PushLastEpoch">>
              /\ last.err = ErrNone
              /\ last.epoch = [id |-> sealed, endTime |-> EpochSnapshots(sealed, sealed).endTime]
              /\ epochCache = IF last.putOk THEN last.epoch ELSE NoEpoch

C6_Witness ==
    /\ last.op = "CurrentSealedEpoch"
    /\ last.epBefore = NoEpoch
    /\ Called(last.calls, "cache.PushLastEpoch")
    /\ epochCache = last.epoch
    /\ last.epoch.id = MaxEpoch

(***************************************************************************)
(* C7: Epoch(id) asks the RPC client and nothing else: it makes no cache   *)
(* call, leaves the cache as it was and returns what the RPC client        *)
(* answered, also when the cache holds the latest sealed epoch under the   *)
(* same id.                                                                *)
(***************************************************************************)
C7_EpochByIdGoesLive ==
    last.op = "Epoch" =>
        /\ last.calls = <<"rpc.Epoch">>
        /\ epochCache = last.epBefore
        /\ txCache = last.txBefore
        /\ last.err = last.epErr
        /\ last.epErr = ErrNone =>
              last.epoch = [id |-> last.key, endTime |-> EpochSnapshots(sealed, last.key).endTime]
        /\ last.epErr # ErrNone => last.epoch = NoEpoch

C7_Witness ==
    /\ last.op = "Epoch"
    /\ last.epBefore # NoEpoch
    /\ last.epBefore.id = last.key
    /\ last.err = ErrNone
    /\ last.calls = <<"rpc.Epoch">>

(***************************************************************************)
(* The entries of a page as a set, and the ends of a set of ordinals.      *)
(***************************************************************************)
PageSet == {page.edges[i] : i \in DOMAIN page.edges}
Newest(S) == CHOOSE x \in S : \A y \in S : y <= x
Oldest(S) == CHOOSE x \in S : \A y \in S : y >= x
OlderThan(c) == {e \in dbTrx : e < c}
NewerThan(c) == {e \in dbTrx : e > c}

(***************************************************************************)
(* C8: where a page starts and which way it scans. Without a cursor a      *)
(* positive count starts at the most recent entry and a negative count at  *)
(* the oldest. With a cursor a positive count starts at the entry just     *)
(* older than the cursor and holds older entries only, a negative count    *)
(* starts at the entry just newer than the cursor and holds newer entries  *)
(* only. The scan skips no stored entry, and the cursor's own entry is     *)
(* never on the page.                                                      *)
(***************************************************************************)
C8_PageStartAndDirection ==
    page.asked =>
        /\ PageSet \subseteq dbTrx
        /\ page.cursor \notin PageSet
        /\ \A e \in dbTrx :
              (PageSet # {} /\ e < Newest(PageSet) /\ e > Oldest(PageSet)) => e \in PageSet
        /\ (page.cursor = 0 /\ page.count > 0 /\ dbTrx # {}) =>
              (PageSet # {} /\ page.edges[1] = Newest(dbTrx))
        /\ (page.cursor = 0 /\ page.count < 0 /\ dbTrx # {}) =>
              (PageSet # {} /\ page.edges[Len(page.edges)] = Oldest(dbTrx))
        /\ (page.cursor # 0 /\ page.count > 0) =>
              /\ \A e \in PageSet : e < page.cursor
              /\ OlderThan(page.cursor) # {} =>
                    (PageSet # {} /\ page.edges[1] = Newest(OlderThan(page.cursor)))
        /\ (page.cursor # 0 /\ page.count < 0) =>
              /\ \A e \in PageSet : e > page.cursor
              /\ NewerThan(page.cursor) # {} =>
                    (PageSet # {}
                     /\ page.edges[Len(page.edges)] = Oldest(NewerThan(page.cursor)))

C8_Witness ==
    /\ page.asked
    /\ page.cursor # 0
    /\ page.count < 0
    /\ Len(page.edges) >= 2
    /\ page.edges[Len(page.edges)] = Oldest(NewerThan(page.cursor))
    /\ NewerThan(Newest(PageSet)) # {}

(***************************************************************************)
(* C9: every page lists its entries newest first, whatever the sign of the *)
(* count and with or without a cursor.                                     *)
(***************************************************************************)
C9_PageNewestFirst ==
    page.asked =>
        \A i \in 1..(Len(page.edges) - 1) : page.edges[i] > page.edges[i + 1]

C9_Witness ==
    /\ page.asked
    /\ page.count < 0
    /\ page.cursor # 0
    /\ Len(page.edges) >= 2
    /\ page.edges[1] > page.edges[2]

(***************************************************************************)
(* C10: for a positive count N the page has at most N entries, and hasNext *)
(* is true exactly when the page has a last cursor and an entry older than *)
(* it is stored.                                                           *)
(***************************************************************************)
C10_PageSizeAndHasNext ==
    (page.asked /\ page.count > 0) =>
        /\ Len(page.edges) <= page.count
        /\ page.last = (IF page.edges = <<>> THEN 0 ELSE page.edges[Len(page.edges)])
        /\ page.hasNext = (page.last # 0 /\ OlderThan(page.last) # {})

C10_Witness ==
    /\ page.asked
    /\ page.count > 0
    /\ page.cursor # 0
    /\ Len(page.edges) = page.count
    /\ page.count >= 2
    /\ page.hasNext

(***************************************************************************)
(* C11: a forward request made with the last cursor of the page before it  *)
(* and the same positive count returns the next older page: older entries  *)
(* only, starting at the entry just older than that cursor, none shared    *)
(* with the page before, as many as the count or all that remain. A walk   *)
(* from the top has, after each page, enumerated the newest entries of the *)
(* collection once each, newest first, and all of them once hasNext is     *)
(* false.                                                                  *)
(***************************************************************************)
C11_ForwardPagesChain ==
    /\ (page.prevAsked /\ page.count > 0 /\ page.count = page.prevCount) =>
          /\ \A e \in PageSet : e < page.cursor
          /\ PageSet \cap {page.prevEdges[i] : i \in DOMAIN page.prevEdges} = {}
          /\ OlderThan(page.cursor) # {} =>
                (PageSet # {} /\ page.edges[1] = Newest(OlderThan(page.cursor)))
          /\ Len(page.edges) = (IF Cardinality(OlderThan(page.cursor)) < page.count
                                THEN Cardinality(OlderThan(page.cursor)) ELSE page.count)
    /\ page.walking =>
          /\ \A i \in DOMAIN page.seen :
                page.seen[i] \in dbTrx /\ Cardinality(NewerThan(page.seen[i])) = i - 1
          /\ ~page.hasNext => Len(page.seen) = Cardinality(dbTrx)

C11_Witness ==
    /\ page.walking
    /\ page.prevAsked
    /\ page.count >= 2
    /\ Len(page.prevEdges) = page.count
    /\ Len(page.edges) >= 2
    /\ ~page.hasNext
    /\ Len(page.seen) = MaxEntries

(***************************************************************************)
(* C12 as stated: the top page asked for with count N, followed by a       *)
(* request with that page's last cursor and count -N, gives the top page   *)
(* again, same entries in the same order.                                  *)
(***************************************************************************)
C12_BackwardReconstructsTopPage ==
    (page.prevAsked /\ page.prevCursor = 0 /\ page.prevCount > 0
        /\ page.count = -page.prevCount)
        => page.edges = page.prevEdges

(***************************************************************************)
(* C12 amended: the top page asked for with count N, followed by a request *)
(* with that page's last cursor and count -N, gives the top page without   *)
(* its last entry (the entry of the cursor), in the same order.            *)
(***************************************************************************)
C12_BackwardReconstructsAllButCursor ==
    (page.prevAsked /\ page.prevCursor = 0 /\ page.prevCount > 0
        /\ page.count = -page.prevCount)
        => page.edges = SubSeq(page.prevEdges, 1, Len(page.prevEdges) - 1)

C12_Witness ==
    /\ page.prevAsked
    /\ page.prevCursor = 0
    /\ page.prevCount >= 3
    /\ page.count = -page.prevCount
    /\ Len(page.prevEdges) = page.prevCount
    /\ Len(page.edges) = page.prevCount - 1
    /\ page.hasNext

(***************************************************************************)
(* C13: the count Account.TxList passes to AccountTransactions is at most  *)
(* 50 in absolute value, has the sign of the requested count, and is the   *)
(* requested count itself when that is within the limit.                   *)
(***************************************************************************)
C13_TxListClampsCount ==
    txl.asked =>
        /\ txl.passed <= accMaxTransactionsPerRequest
        /\ txl.passed >= -accMaxTransactionsPerRequest
        /\ (txl.count > 0) = (txl.passed > 0)
        /\ (txl.count < 0) = (txl.passed < 0)
        /\ (txl.count <= accMaxTransactionsPerRequest
              /\ txl.count >= -accMaxTransactionsPerRequest) => txl.passed = txl.count

C13_Witness ==
    /\ txl.asked
    /\ txl.count < -accMaxTransactionsPerRequest
    /\ txl.passed = -accMaxTransactionsPerRequest
    /\ txl.err = ErrNone
    /\ Len(txl.edges) = MaxEntries

(***************************************************************************)
(* What the contract holds of the staker, for the claims on the assembly.  *)
(***************************************************************************)
BasePresent == sfc.status # Nil /\ sfc.stake # Nil /\ sfc.delegatedMe # Nil
SelfStake == sfc.stake[1]
DelegatedToMe == sfc.delegatedMe[1]

(***************************************************************************)
(* C14: when the contract's record of the staker is present with           *)
(* self-stake S and delegated-to-me D, and the ratio R is read, the lookup *)
(* returns total-stake S + D, the max-total-delegated-limit m that is the  *)
(* floor of S*R/1,000,000 (m*U <= S*R < (m+1)*U) and the remaining limit   *)
(* m - D, whatever amounts the node's own record repeated.                 *)
(***************************************************************************)
C14_StakerLimitsArithmetic ==
    (stk.asked /\ stk.out.stakers = "ok" /\ stk.out.ratio = "ok" /\ BasePresent) =>
        /\ stk.found /\ stk.err = ErrNone
        /\ stk.staker.stake = Some(SelfStake)
        /\ stk.staker.delegatedMe = Some(DelegatedToMe)
        /\ stk.staker.totalStake = Some(SelfStake + DelegatedToMe)
        /\ stk.staker.totalDelegatedLimit * ratioUnit <= SelfStake * sfc.ratio
        /\ SelfStake * sfc.ratio < (stk.staker.totalDelegatedLimit + 1) * ratioUnit
        /\ stk.staker.delegatedLimit = stk.staker.totalDelegatedLimit - DelegatedToMe

C14_Witness ==
    /\ stk.asked /\ stk.byAddress /\ stk.found
    /\ stk.out.ratio = "ok"
    /\ BasePresent
    /\ sfc.reported # Nil
    /\ (SelfStake * sfc.ratio) % ratioUnit # 0
    /\ stk.staker.totalDelegatedLimit > 0
    /\ DelegatedToMe > 0
    /\ stk.staker.totalStake = Some(SelfStake + DelegatedToMe)

(***************************************************************************)
(* C15: when delegated-to-me D is above the max-total-delegated-limit      *)
(* (S*R < D*U), the lookup succeeds and the remaining limit is the         *)
(* negative number max-limit - D.                                          *)
(***************************************************************************)
C15_OverDelegatedIsNegative ==
    (stk.asked /\ stk.out.ratio = "ok" /\ BasePresent
        /\ SelfStake * sfc.ratio < DelegatedToMe * ratioUnit) =>
        /\ stk.found /\ stk.err = ErrNone
        /\ stk.staker.delegatedLimit < 0
        /\ stk.staker.delegatedLimit = stk.staker.totalDelegatedLimit - DelegatedToMe

C15_Witness ==
    /\ stk.asked /\ stk.found /\ stk.err = ErrNone
    /\ stk.out.ratio = "ok"
    /\ BasePresent
    /\ stk.staker.totalDelegatedLimit > 0
    /\ DelegatedToMe > stk.staker.totalDelegatedLimit
    /\ stk.staker.delegatedLimit < 0

(***************************************************************************)
(* C16: when the lock read fails, or answers without the lock's start      *)
(* epoch or without its end time, the lookup returns no error, the stake   *)
(* and status fields are those the status update assembled, and both lock  *)
(* fields are zero; the lock fields are set only from a lock read that     *)
(* answered with both values, and then both are set.                       *)
(***************************************************************************)
C16_LockDegradesGracefully ==
    /\ (stk.asked
          /\ (\/ stk.out.lock = "fails"
              \/ stk.out.lock = "ok" /\ (sfc.fromEpoch = Nil \/ sfc.endTime = Nil))) =>
          /\ stk.found /\ stk.err = ErrNone
          /\ stk.staker = stakerStatusFromSfc(RpcGetStaker(sfc), sfc, stk.out).staker
          /\ stk.staker.lockedFromEpoch = 0
          /\ stk.staker.lockedUntil = 0
    /\ (stk.asked /\ (stk.staker.lockedFromEpoch # 0 \/ stk.staker.lockedUntil # 0)) =>
          /\ stk.out.lock = "ok"
          /\ sfc.fromEpoch # Nil /\ sfc.endTime # Nil
          /\ stk.staker.lockedFromEpoch = sfc.fromEpoch[1]
          /\ stk.staker.lockedUntil = sfc.endTime[1]

C16_Witness ==
    /\ stk.asked /\ stk.found /\ stk.err = ErrNone
    /\ stk.out.lock = "ok"
    /\ sfc.fromEpoch # Nil /\ sfc.endTime = Nil
    /\ stk.out.ratio = "ok"
    /\ stk.staker.totalStake = Some(SelfStake + DelegatedToMe)
    /\ stk.staker.lockedFromEpoch = 0

C18_RatioFailureLeavesLimitsZero ==
    (stk.asked /\ stk.out.ratio = "fails") =>
        /\ stk.found /\ stk.err = ErrNone
        /\ stk.staker.totalDelegatedLimit = 0
        /\ stk.staker.delegatedLimit = 0

(***************************************************************************)
(* What the orchestrator's loops have done, for the claims on them.        *)
(***************************************************************************)
Taken(k) == SubSeq(feed[k], 1, done[k])

(***************************************************************************)
(* C19: the block loop appends the blocks in the order the node notified   *)
(* of them, none skipped and none moved: the appends made are the          *)
(* notifications taken so far, in order, so blocks notified as N, N+1, N+2 *)
(* are stored in that order. Whatever is notified, repeated or out of      *)
(* order, no block number is stored twice, the stored blocks lie in the    *)
(* order of appends made, and a step of the loop never lowers the height   *)
(* of the stored chain.                                                    *)
(***************************************************************************)
C19_BlockLoopKeepsOrder ==
    /\ blkLog = Taken("block")
    /\ \A i, j \in DOMAIN blkStore : blkStore[i] = blkStore[j] => i = j
    /\ \A i \in DOMAIN blkStore : \E j \in DOMAIN blkLog : blkLog[j] = blkStore[i]
    /\ \A i, j \in DOMAIN blkStore :
          i < j => \E a, b \in DOMAIN blkLog :
                      a < b /\ blkLog[a] = blkStore[i] /\ blkLog[b] = blkStore[j]
    /\ fwd.kind = "block" =>
          /\ Height(blkStore) >= fwd.heightBefore
          /\ (fwd.ok /\ fwd.item > fwd.heightBefore) =>
                (Height(blkStore) = fwd.item /\ blkStore[Len(blkStore)] = fwd.item)

C19_Witness ==
    /\ fwd.kind = "block"
    /\ Len(blkLog) = 3
    /\ blkLog[2] = blkLog[1] + 1
    /\ blkLog[3] = blkLog[2] + 1
    /\ blkStore = blkLog

(***************************************************************************)
(* C20: a step of either loop sends the notification to every registered   *)
(* subscriber whose channel has room and drops it for exactly the          *)
(* registered subscribers whose channel is full, leaving their channels as *)
(* they were; the step is made all the same, and a loop with a             *)
(* notification waiting can always take it, whatever the channels hold.    *)
(***************************************************************************)
C20_ForwardNeverBlocks ==
    /\ fwd.kind # "none" =>
          /\ \A s \in Subscribers :
                IF s \in fwd.registered /\ Len(fwd.before[s]) < ChanCap
                THEN /\ chans[fwd.kind][s] = Append(fwd.before[s], fwd.item)
                     /\ s \notin fwd.dropped
                ELSE /\ chans[fwd.kind][s] = fwd.before[s]
                     /\ (s \in fwd.dropped) = (s \in fwd.registered)
          /\ done[fwd.kind] = fwd.doneBefore + 1
    /\ done["block"] < Len(feed["block"]) => ENABLED BlockLoopStep
    /\ done["trx"] < Len(feed["trx"]) => ENABLED TrxLoopStep

C20_Witness ==
    /\ fwd.kind # "none"
    /\ fwd.dropped # {}
    /\ \E s \in fwd.registered \ fwd.dropped :
          chans[fwd.kind][s] = Append(fwd.before[s], fwd.item)
    /\ done[fwd.kind] < Len(feed[fwd.kind])

(***************************************************************************)
(* C21: the orchestrator's close does not return until the block loop and  *)
(* the transaction loop have both exited; once it has returned, nothing is *)
(* written to the document store and nothing is forwarded to an output     *)
(* channel any more, however the close interleaves with the notifications  *)
(* in flight; and the repository closes the document store and the         *)
(* connection to the node only after the orchestrator's close has          *)
(* returned.                                                               *)
(***************************************************************************)
C21_CloseWaitsForLoops ==
    /\ [](closing.returned > 0 => \A k \in Kinds : loops[k] = "exited")
    /\ [][closing.returned > 0 =>
             /\ UNCHANGED <<dbTrx, dbContracts, blkStore, blkLog, done>>
             /\ \A k \in Kinds, s \in Subscribers :
                    Len(chans'[k][s]) <= Len(chans[k][s])]_vars
    /\ [](/\ closing.dbCloses <= closing.returned
          /\ closing.rpcCloses <= closing.returned)

\* the repository is closed, with notifications both taken and left behind
C21_Witness ==
    /\ closing.returned > 0
    /\ closing.dbCloses > 0
    /\ closing.rpcCloses > 0
    /\ blkStore # <<>>
    /\ \E s \in Subscribers : chans["block"][s] # <<>>
    /\ done["trx"] < Len(feed["trx"])

C23_PersistFailureKeepsLoop ==
    /\ [][fwd'.kind # "none" /\ ~fwd'.ok =>
             /\ loops' = loops
             /\ UNCHANGED <<closing, last>>
             /\ done'[fwd'.kind] = done[fwd'.kind] + 1
             /\ \A s \in fwd'.registered \ fwd'.dropped :
                    chans'[fwd'.kind][s] = Append(chans[fwd'.kind][s], fwd'.item)]_vars
    /\ \A k \in Kinds, n \in 1..MaxEvents :
           (Len(feed[k]) >= n) ~> (done[k] >= n)

\* a block that failed to persist, and a later one persisted and forwarded
C23_Witness ==
    /\ fwd.kind = "block"
    /\ fwd.ok
    /\ fwd.registered \ fwd.dropped # {}
    /\ blkStore # <<>>
    /\ blkStore[Len(blkStore)] = fwd.item
    /\ \E i \in 1..(Len(blkLog) - 1) :
           \A j \in DOMAIN blkStore : blkStore[j] # blkLog[i]

C24_WitnessTrx ==
    /\ fwd.kind = "trx"
    /\ fwd.had
    /\ fwd.ok
    /\ TrxDeploys(fwd.item)
    /\ Cardinality(dbTrx) = 1
    /\ Cardinality(dbContracts) = 1
    /\ Len(blkStore) >= 1

(***************************************************************************)
(* C25: AddTransaction appends the transaction first, and it appends a     *)
(* contract record if and only if the transaction carries the address of a *)
(* deployed contract and the append of the transaction succeeded. An error *)
(* of either append is returned; after a failed append of the transaction  *)
(* no contract append is attempted; the cache is never touched.            *)
(***************************************************************************)
C25_AddTransactionAppendsInOrder ==
    /\ [](last.op = "AddTransaction" =>
            /\ last.calls \in {<<"db.AddTransaction">>,
                               <<"db.AddTransaction", "db.AddContract">>}
            /\ Called(last.calls, "db.AddContract") <=> (last.deploys /\ last.trxOk)
            /\ (last.err # ErrNone) <=>
                   (~last.trxOk \/ (last.deploys /\ ~last.conOk))
            /\ ~CallsAny(last.calls, CacheCallNames))
    /\ [][last'.op = "AddTransaction" =>
             /\ UNCHANGED <<txCache, epochCache>>
             /\ ~last'.trxOk => UNCHANGED <<dbTrx, dbContracts>>
             /\ last'.trxOk => last'.key \in dbTrx'
             /\ dbContracts' # dbContracts =>
                    last'.deploys /\ last'.trxOk /\ last'.conOk]_vars

\* a deploying transaction cached already is stored, its contract record is
\* refused, and the error comes back
C25_Witness ==
    /\ last.op = "AddTransaction"
    /\ last.deploys
    /\ last.trxOk
    /\ ~last.conOk
    /\ last.err = ErrDatabase
    /\ last.key \in dbTrx
    /\ last.key \notin dbContracts
    /\ last.key \in Hashes
    /\ txCache[last.key] # NoTrx
    /\ epochCache # NoEpoch

(***************************************************************************)
(* C26: CurrentSealedEpoch is not kept in step with the node. While the    *)
(* cache holds a latest-sealed-epoch entry, CurrentSealedEpoch returns     *)
(* that entry without asking the node, whatever the node's sealed epoch id *)
(* has become; it returns another epoch only when the entry was gone       *)
(* before the call; and an entry that is there is changed by nothing but   *)
(* the cache dropping it: no operation of the facade refreshes it or       *)
(* invalidates it.                                                         *)
(***************************************************************************)
C26_SealedEpochStaysStale ==
    /\ [](last.op = "CurrentSealedEpoch" /\ last.epBefore # NoEpoch =>
            /\ last.epoch = last.epBefore
            /\ last.err = ErrNone
            /\ ~CallsAny(last.calls, RpcCallNames)
            /\ epochCache = last.epBefore)
    /\ [](last.op = "CurrentSealedEpoch" /\ last.epoch # last.epBefore =>
            last.epBefore = NoEpoch)
    /\ [][epochCache # NoEpoch /\ epochCache' # epochCache =>
             epochCache' = NoEpoch /\ last' = NoOp]_vars

\* the node has sealed a later epoch and the entry of the earlier one is
\* returned
C26_Witness ==
    /\ last.op = "CurrentSealedEpoch"
    /\ last.epBefore # NoEpoch
    /\ last.epoch.id < sealed
    /\ last.key = sealed
    /\ epochCache.id < sealed

====
